---- MODULE Spec2Model ----
(***************************************************************************)
(* Federated directly-follows graph discovery between organization A (the  *)
(* private key owner, PrivateKeyOrganization) and organization B (the      *)
(* public key owner, PublicKeyOrganization).                               *)
(*                                                                         *)
(* In the sources every "encryption" is the plain value (encrypt_activity, *)
(* encrypt_timestamp, decrypt_activity return their argument), so the      *)
(* model computes on the plain codes and timestamps as the code does.      *)
(* Rust vectors are 0-based; the sequences here are 1-based, so position i *)
(* of the code is position i+1 of the model.                               *)
(***************************************************************************)
EXTENDS Integers, Sequences, FiniteSets, TLC

VARIABLES
    pc,                    \* position of communicate (or of the driver of B's checks)
    org_a,                 \* PrivateKeyOrganization: event_log, activity_to_pos, pos_to_activity
    org_b,                 \* PublicKeyOrganization: its fields
    window_size,           \* communicate's window_size
    server_key_set,        \* set_server_key was called
    org_a_case_ids,        \* communicate: org_a_case_ids
    encrypted_case_ids,    \* communicate: encrypted_case_ids
    shared_case_id_result, \* communicate: shared_case_id_result
    shared_case_ids,       \* communicate: shared_case_ids
    sample_encryptions,    \* communicate: sample_encryptions
    org_a_encrypted_data,  \* communicate: org_a_encrypted_data (message A -> B)
    step,                  \* communicate: the current element of (0..max_size).step_by(window_size)
    windows,               \* history: the (start_case, upper_bound) of every find_all_secrets call
    decrypted_edges,       \* communicate: decrypted_edges collected so far
    graph,                 \* communicate: graph
    hom,                   \* the homomorphic-operation counters
    call                   \* a single call of find_secrets_for_case: its arguments and result

vars == <<pc, org_a, org_b, window_size, server_key_set, org_a_case_ids,
          encrypted_case_ids, shared_case_id_result, shared_case_ids,
          sample_encryptions, org_a_encrypted_data, step, windows,
          decrypted_edges, graph, hom, call>>

(***************************************************************************)
(* Bounds of the model.                                                    *)
(***************************************************************************)
MaxTraces == 2      \* traces per event log
MaxLen == 1         \* events per trace in the logs of the protocol runs
MaxTime == 2        \* timestamps are 1..MaxTime
NumActs == 2        \* activity names occurring in the logs
MaxWindow == 3      \* window_size is 1..MaxWindow
MaxEvents == 3      \* events per side in a single call of find_secrets_for_case
MaxCaseTime == 3    \* timestamps of a single call of find_secrets_for_case
MaxPrivateLen == 2  \* events per trace of A's log in a call of update_graph_with_private_cases
MaxEdges == 3       \* edges in a list given to decrypt_edges

(***************************************************************************)
(* Generic helpers: maps (HashMap), bags of a sequence, permutations.      *)
(***************************************************************************)
Range(s) == {s[i] : i \in DOMAIN s}

EmptyMap == <<>>

Insert(m, k, v) == [x \in (DOMAIN m) \cup {k} |-> IF x = k THEN v ELSE m[x]]

\* the number of occurrences of every element of a sequence
BagOfSeq(s) == [e \in Range(s) |-> Cardinality({i \in DOMAIN s : s[i] = e})]

\* all orders in which a finite set can be enumerated
Orders(S) == {s \in [1..Cardinality(S) -> S] : Range(s) = S}

\* timestamp sequences of length n, sorted (events of a trace are sorted on import)
SortedTimes(n, maxT) ==
    {s \in [1..n -> 1..maxT] : \A i \in 1..(n - 1) : s[i] <= s[i + 1]}

RECURSIVE SumSeq(_)
SumSeq(s) == IF s = <<>> THEN 0 ELSE s[1] + SumSeq(Tail(s))

RECURSIVE Flatten(_)
Flatten(ss) == IF ss = <<>> THEN <<>> ELSE ss[1] \o Flatten(Tail(ss))

(***************************************************************************)
(* The activity codes of the sentinels (update_with_foreign_activities).   *)
(***************************************************************************)
StartCode == 0
EndCode == 1

\* Option<u16>::None of PublicKeyOrganization.start / .end
None == -1

(***************************************************************************)
(* The merge engine of B: find_secrets_for_case and its helpers.           *)
(***************************************************************************)
comparison_fn_strict(val1, val2) == val1 < val2

\* comparison_fn: val1 <= val2
comparison_fn(val1, val2) == val1 <= val2

\* comparison_foreign_to_own[(i, j)] = foreign_timestamps[i] <= own_timestamps[j]
ComparisonForeignToOwn(foreign_timestamps, own_timestamps) ==
    [ij \in (DOMAIN foreign_timestamps) \X (DOMAIN own_timestamps) |->
        comparison_fn(foreign_timestamps[ij[1]], own_timestamps[ij[2]])]

\* variant: comparison_own_to_foreign[(j, i)] = own_timestamps[j] <= foreign_timestamps[i]
ComparisonOwnToForeignLessEqual(foreign_timestamps, own_timestamps) ==
    [ji \in (DOMAIN own_timestamps) \X (DOMAIN foreign_timestamps) |->
        comparison_fn(own_timestamps[ji[1]], foreign_timestamps[ji[2]])]

\* comparison_own_to_foreign[(j, i)] = not comparison_foreign_to_own[(i, j)]
ComparisonOwnToForeign(foreign_timestamps, own_timestamps) ==
    [ji \in (DOMAIN own_timestamps) \X (DOMAIN foreign_timestamps) |->
        ~ComparisonForeignToOwn(foreign_timestamps, own_timestamps)[<<ji[2], ji[1]>>]]

\* variant: the other side is searched from its first to its last activity
handle_last_forward(b, pos, other_activities, comparison_this_to_other) ==
    LET RECURSIVE loop(_, _)
        loop(i, result) ==
            IF i > Len(other_activities) THEN result
            ELSE loop(i + 1, IF comparison_this_to_other[<<pos, i>>]
                             THEN other_activities[i] ELSE result)
    IN loop(1, b.end)

\* handle_last: for i in (0..other_activities.len()).rev()
\*                  if comparison_this_to_other[(pos, i)] { result = other_activities[i] }
handle_last(b, pos, other_activities, comparison_this_to_other) ==
    LET RECURSIVE loop(_, _)
        loop(i, result) ==
            IF i < 1 THEN result
            ELSE loop(i - 1, IF comparison_this_to_other[<<pos, i>>]
                             THEN other_activities[i] ELSE result)
    IN loop(Len(other_activities), b.end)

\* variant: the second selection is counted only where the comparison holds
find_following_activity_counting_taken(pos, next_activity, other_activities, comparison_this_to_other, comparison_other_to_this) ==
    LET RECURSIVE loop(_, _)
        loop(i, result) ==
            IF i < 1 THEN result
            ELSE LET intermediate_result ==
                        IF comparison_other_to_this[<<i, pos + 1>>]
                        THEN other_activities[i] ELSE next_activity
                 IN loop(i - 1, IF comparison_this_to_other[<<pos, i>>]
                                THEN intermediate_result ELSE result)
    IN [activity |-> loop(Len(other_activities), next_activity),
        selections |-> Len(other_activities)
                       + Cardinality({i \in DOMAIN other_activities :
                                        comparison_this_to_other[<<pos, i>>]})]

\* variant: the other side is searched from its first to its last activity
find_following_activity_forward(pos, next_activity, other_activities, comparison_this_to_other, comparison_other_to_this) ==
    LET RECURSIVE loop(_, _)
        loop(i, result) ==
            IF i > Len(other_activities) THEN result
            ELSE LET intermediate_result ==
                        IF comparison_other_to_this[<<i, pos + 1>>]
                        THEN other_activities[i] ELSE next_activity
                 IN loop(i + 1, IF comparison_this_to_other[<<pos, i>>]
                                THEN intermediate_result ELSE result)
    IN [activity |-> loop(1, next_activity),
        selections |-> 2 * Len(other_activities)]

\* find_following_activity: returns the activity and the number of selections counted
find_following_activity(pos, next_activity, other_activities, comparison_this_to_other, comparison_other_to_this) ==
    LET RECURSIVE loop(_, _)
        loop(i, result) ==
            IF i < 1 THEN result
            ELSE LET intermediate_result ==
                        IF comparison_other_to_this[<<i, pos + 1>>]
                        THEN other_activities[i] ELSE next_activity
                 IN loop(i - 1, IF comparison_this_to_other[<<pos, i>>]
                                THEN intermediate_result ELSE result)
    IN [activity |-> loop(Len(other_activities), next_activity),
        selections |-> 2 * Len(other_activities)]

\* variant: only the edges of the sentinels are pushed
add_full_trace_sentinels_only(b, activities) ==
    IF activities = <<>>
    THEN [panic |-> TRUE, edges |-> <<>>]
    ELSE [panic |-> FALSE,
          edges |-> << <<b.start, activities[1]>>,
                       <<activities[Len(activities)], b.end>> >>]

\* add_full_trace: the edges pushed; with no activity the range 0..len()-1
\* underflows (usize) and the call panics
add_full_trace(b, activities) ==
    IF activities = <<>>
    THEN [panic |-> TRUE, edges |-> <<>>]
    ELSE [panic |-> FALSE,
          edges |-> << <<b.start, activities[1]>>,
                       <<activities[Len(activities)], b.end>> >>
                    \o [i \in 1..(Len(activities) - 1) |->
                            <<activities[i], activities[i + 1]>>]]

\* find_secrets_for_case: the edges returned and the increments of the two counters
find_secrets_for_case(b, foreign_activities, foreign_timestamps, own_activities, own_timestamps) ==
    IF own_activities = <<>>
    THEN add_full_trace(b, foreign_activities)
            @@ [timestamp_hom_comparisons |-> 0, selection_hom_comparisons |-> 0]
    ELSE IF foreign_activities = <<>>
    THEN add_full_trace(b, own_activities)
            @@ [timestamp_hom_comparisons |-> 0, selection_hom_comparisons |-> 0]
    ELSE
    LET f2o == ComparisonForeignToOwn(foreign_timestamps, own_timestamps)
        o2f == ComparisonOwnToForeign(foreign_timestamps, own_timestamps)
        p == Len(foreign_activities)
        q == Len(own_activities)
        startEdge == << <<b.start, IF f2o[<<1, 1>>] THEN foreign_activities[1]
                                                    ELSE own_activities[1]>> >>
        foreignNext == [i \in 1..(p - 1) |->
            find_following_activity(i, foreign_activities[i + 1], own_activities, f2o, o2f)]
        ownNext == [j \in 1..(q - 1) |->
            find_following_activity(j, own_activities[j + 1], foreign_activities, o2f, f2o)]
        foreignEdges == [i \in 1..(p - 1) |-> <<foreign_activities[i], foreignNext[i].activity>>]
        ownEdges == [j \in 1..(q - 1) |-> <<own_activities[j], ownNext[j].activity>>]
        lastForeign == << <<foreign_activities[p], handle_last(b, p, own_activities, f2o)>> >>
        lastOwn == << <<own_activities[q], handle_last(b, q, foreign_activities, o2f)>> >>
    IN [panic |-> FALSE,
        edges |-> startEdge \o foreignEdges \o ownEdges \o lastForeign \o lastOwn,
        timestamp_hom_comparisons |-> 2 * Len(foreign_timestamps) * Len(own_timestamps),
        selection_hom_comparisons |->
            1 + SumSeq([i \in 1..(p - 1) |-> foreignNext[i].selections])
              + SumSeq([j \in 1..(q - 1) |-> ownNext[j].selections]) + 1 + 1]

(***************************************************************************)
(* The plaintext oracle: the stable merge of the two sides of a case by    *)
(* timestamp, an A (foreign) event before a B (own) event of equal         *)
(* timestamp, given by the rank of every event in the merged sequence.     *)
(***************************************************************************)
RankForeign(i, foreign_timestamps, own_timestamps) ==
    i + Cardinality({j \in DOMAIN own_timestamps : own_timestamps[j] < foreign_timestamps[i]})

RankOwn(j, foreign_timestamps, own_timestamps) ==
    j + Cardinality({i \in DOMAIN foreign_timestamps : foreign_timestamps[i] <= own_timestamps[j]})

MergedCase(foreign_activities, foreign_timestamps, own_activities, own_timestamps) ==
    [r \in 1..(Len(foreign_activities) + Len(own_activities)) |->
        IF \E i \in DOMAIN foreign_activities :
                RankForeign(i, foreign_timestamps, own_timestamps) = r
        THEN foreign_activities[CHOOSE i \in DOMAIN foreign_activities :
                RankForeign(i, foreign_timestamps, own_timestamps) = r]
        ELSE own_activities[CHOOSE j \in DOMAIN own_activities :
                RankOwn(j, foreign_timestamps, own_timestamps) = r]]

\* the consecutive pairs of a sequence
ConsecutivePairs(s) == [i \in 1..(Len(s) - 1) |-> <<s[i], s[i + 1]>>]

\* the pairs of start -> e_1 -> ... -> e_n -> end for a merged case e
WrappedPairs(startV, merged, endV) == ConsecutivePairs(<<startV>> \o merged \o <<endV>>)

(***************************************************************************)
(* Event logs.  A log is a sequence of traces; a trace has its case id     *)
(* (the trace attribute concept:name) and its events, each with an         *)
(* activity name and a timestamp.                                          *)
(***************************************************************************)
ActivityList == <<"a", "b", "c", "d", "e">>
CaseIdList == <<"c1", "c2", "c3", "c4">>

\* the activity names of the logs; start and end are the reserved sentinel names
ActivityNames == {ActivityList[i] : i \in 1..NumActs}
CaseIds == {CaseIdList[i] : i \in 1..MaxTraces}

EventSeqs ==
    UNION {{[i \in 1..n |-> [activity |-> acts[i], timestamp |-> ts[i]]] :
                acts \in [1..n -> ActivityNames], ts \in SortedTimes(n, MaxTime)} :
           n \in 0..MaxLen}

Traces == {[name |-> c, events |-> ev] : c \in CaseIds, ev \in EventSeqs}

\* logs with at most MaxTraces traces, case ids unique within a log
EventLogs ==
    UNION {{log \in [1..n -> Traces] :
                \A i, j \in 1..n : i # j => log[i].name # log[j].name} :
           n \in 0..MaxTraces}

\* get_trace_attribute(trace, "concept:name") of every trace, in log order
TraceNames(event_log) == [i \in DOMAIN event_log |-> event_log[i].name]

\* the 64-bit SipHash of a case id: distinct case ids have distinct hashes
SipHash(case_id) ==
    LET i == CHOOSE k \in DOMAIN CaseIdList : CaseIdList[k] = case_id
    IN 7919 * i + 104729

\* find_activities: the activity names of the events of a log
find_activities(event_log) ==
    UNION {{event_log[t].events[e].activity : e \in DOMAIN event_log[t].events} :
           t \in DOMAIN event_log}

\* find_name_trace_dictionary: the last trace of a name wins
find_name_trace_dictionary(event_log) ==
    [n \in Range(TraceNames(event_log)) |->
        event_log[CHOOSE i \in DOMAIN event_log :
            /\ event_log[i].name = n
            /\ \A j \in DOMAIN event_log : event_log[j].name = n => j <= i]]

(***************************************************************************)
(* The library's DirectlyFollowsGraph as the code uses it.                 *)
(***************************************************************************)
\* add_activity(act, frequency): activities[act] += frequency
add_activity(g, act, frequency) ==
    [g EXCEPT !.activities =
        Insert(@, act, (IF act \in DOMAIN @ THEN @[act] ELSE 0) + frequency)]

\* add_df_relation(from, to, frequency): directly_follows_relations[(from, to)] += frequency
add_df_relation(g, from, to, frequency) ==
    [g EXCEPT !.directly_follows_relations =
        Insert(@, <<from, to>>, (IF <<from, to>> \in DOMAIN @ THEN @[<<from, to>>] ELSE 0) + frequency)]

RECURSIVE AddRelations(_, _)
\* add_df_relation(from, to, 1) for every pair of a sequence, in order
AddRelations(g, pairs) ==
    IF pairs = <<>> THEN g
    ELSE AddRelations(add_df_relation(g, pairs[1][1], pairs[1][2], 1), Tail(pairs))

\* the sum of a map's values over the keys of S
RECURSIVE SumOver(_, _)
SumOver(m, S) ==
    IF S = {} THEN 0
    ELSE LET k == CHOOSE x \in S : TRUE IN m[k] + SumOver(m, S \ {k})

\* get_ingoing_df_relations(act)
get_ingoing_df_relations(g, act) ==
    {r \in DOMAIN g.directly_follows_relations : r[2] = act}

\* get_outgoing_df_relations(act)
get_outgoing_df_relations(g, act) ==
    {r \in DOMAIN g.directly_follows_relations : r[1] = act}

Max(x, y) == IF x >= y THEN x ELSE y

recalculate_activity_counts_ingoing_only(dfg) ==
    [dfg EXCEPT !.activities =
        [act \in DOMAIN dfg.activities |->
            SumOver(dfg.directly_follows_relations, get_ingoing_df_relations(dfg, act))]]

\* recalculate_activity_counts: every activity gets max(sum ingoing, sum outgoing)
recalculate_activity_counts(dfg) ==
    [dfg EXCEPT !.activities =
        [act \in DOMAIN dfg.activities |->
            Max(SumOver(dfg.directly_follows_relations, get_ingoing_df_relations(dfg, act)),
                SumOver(dfg.directly_follows_relations, get_outgoing_df_relations(dfg, act)))]]

(***************************************************************************)
(* Bags of edges.  find_all_secrets shuffles the edges it returns, and     *)
(* every order is a possible outcome: the returned vector is kept as the   *)
(* bag of its elements (edge -> number of occurrences).                    *)
(***************************************************************************)
EmptyBag == <<>>

BagPlus(b1, b2) ==
    [e \in (DOMAIN b1) \cup (DOMAIN b2) |->
        (IF e \in DOMAIN b1 THEN b1[e] ELSE 0) + (IF e \in DOMAIN b2 THEN b2[e] ELSE 0)]

RECURSIVE BagSum(_)
\* the union of a sequence of bags
BagSum(bs) == IF bs = <<>> THEN EmptyBag ELSE BagPlus(bs[1], BagSum(Tail(bs)))

BagSize(b) == SumOver(b, DOMAIN b)

(***************************************************************************)
(* States of the organizations.                                            *)
(***************************************************************************)
\* PrivateKeyOrganization::new
NewPrivateKeyOrganization(event_log) ==
    [event_log |-> event_log, activity_to_pos |-> EmptyMap, pos_to_activity |-> EmptyMap]

\* PublicKeyOrganization::new
NewPublicKeyOrganization(event_log, true_val) ==
    [event_log |-> event_log, activity_to_pos |-> EmptyMap,
     own_case_to_trace |-> EmptyMap, foreign_case_to_trace |-> EmptyMap,
     start |-> None, end |-> None, all_case_names |-> <<>>, true_val |-> true_val]

\* DirectlyFollowsGraph::new
NewGraph ==
    [activities |-> EmptyMap, directly_follows_relations |-> EmptyMap,
     start_activities |-> {}, end_activities |-> {}]

\* the counters start at 0
NewCounters ==
    [case_id_hom_comparisons |-> 0, case_id_hom_selections |-> 0,
     timestamp_hom_comparisons |-> 0, selection_hom_comparisons |-> 0]

NoCall ==
    [foreign_activities |-> <<>>, foreign_timestamps |-> <<>>,
     own_activities |-> <<>>, own_timestamps |-> <<>>,
     returned |-> FALSE, panic |-> FALSE, edges |-> <<>>]

\* the variables of communicate before it starts
CommunicateIdle ==
    /\ server_key_set = FALSE
    /\ org_a_case_ids = <<>>
    /\ encrypted_case_ids = <<>>
    /\ shared_case_id_result = <<>>
    /\ shared_case_ids = {}
    /\ sample_encryptions = EmptyMap
    /\ org_a_encrypted_data = EmptyMap
    /\ step = 0
    /\ windows = <<>>
    /\ decrypted_edges = <<>>
    /\ graph = NewGraph
    /\ hom = NewCounters

(***************************************************************************)
(* Organization A (PrivateKeyOrganization).                                *)
(***************************************************************************)
\* encrypt_activity / decrypt_activity / encrypt_timestamp: the value itself
encrypt_activity(value) == value
decrypt_activity(val) == val
encrypt_timestamp(value) == value

\* encrypt_true
encrypt_true == TRUE

\* encrypt_all_case_ids: (case_ids, encrypted_case_ids), both in log order
encrypt_all_case_ids(a) ==
    [case_ids |-> TraceNames(a.event_log),
     encrypted_case_ids |-> [i \in DOMAIN a.event_log |-> SipHash(a.event_log[i].name)]]

\* variant: only the first entry of the result is looked at
decrypt_and_identify_first_only(own_case_ids, case_id_check_result) ==
    {own_case_ids[r[1]] : r \in {x \in Range(case_id_check_result) : x[2] /\ x[1] = 1}}

\* decrypt_and_identify_shared_case_ids: own_case_ids[id] of every (id, true)
decrypt_and_identify_shared_case_ids(own_case_ids, case_id_check_result) ==
    {own_case_ids[r[1]] : r \in {x \in Range(case_id_check_result) : x[2]}}

RECURSIVE InsertEnumerated(_, _, _, _)
\* activities.iter().enumerate(): activity_to_pos.insert(act, pos + offset), pos from 0
InsertEnumerated(m, order, i, offset) ==
    IF i > Len(order) THEN m
    ELSE InsertEnumerated(Insert(m, order[i], (i - 1) + offset), order, i + 1, offset)

\* the inverse built by inserting (pos, act) for every entry of activity_to_pos
InvertTable(pos_to_activity, activity_to_pos) ==
    [p \in (DOMAIN pos_to_activity) \cup Range(activity_to_pos) |->
        IF p \in Range(activity_to_pos)
        THEN CHOOSE act \in DOMAIN activity_to_pos : activity_to_pos[act] = p
        ELSE pos_to_activity[p]]

update_with_foreign_activities_from_one(a, foreign_activities, order) ==
    LET table == InsertEnumerated(
                    Insert(Insert(a.activity_to_pos, "start", StartCode), "end", EndCode),
                    order, 1, 1)
    IN [a EXCEPT !.activity_to_pos = table,
                 !.pos_to_activity = InvertTable(a.pos_to_activity, table)]

\* update_with_foreign_activities; order is the iteration order of the HashSet
\* of the activities of A's log and the foreign ones
update_with_foreign_activities(a, foreign_activities, order) ==
    LET table == InsertEnumerated(
                    Insert(Insert(a.activity_to_pos, "start", StartCode), "end", EndCode),
                    order, 1, 2)
    IN [a EXCEPT !.activity_to_pos = table,
                 !.pos_to_activity = InvertTable(a.pos_to_activity, table)]

\* provide_sample_encryptions: pos -> encrypt_activity(pos) for every pos of pos_to_activity
provide_sample_encryptions(a) ==
    [pos \in DOMAIN a.pos_to_activity |-> encrypt_activity(pos)]

\* preprocess_trace_private_with_encryption: (activities, timestamps) of a trace
preprocess_trace_private_with_encryption(a, activity_to_pos, trace) ==
    <<[e \in DOMAIN trace.events |-> encrypt_activity(activity_to_pos[trace.events[e].activity])],
      [e \in DOMAIN trace.events |-> encrypt_timestamp(trace.events[e].timestamp)]>>

\* encrypt_all_data of A (compute_case_to_trace_with_encryption): the shared cases only
encrypt_all_data_a(a, shared) ==
    LET name_to_trace == find_name_trace_dictionary(a.event_log)
    IN [name \in (DOMAIN name_to_trace) \cap shared |->
            preprocess_trace_private_with_encryption(a, a.activity_to_pos, name_to_trace[name])]

\* variant: every distinct edge is kept once
decrypt_edges_distinct(a, secret_edges) ==
    LET dec(e) == <<decrypt_activity(e[1]), decrypt_activity(e[2])>>
    IN [d \in {dec(e) : e \in DOMAIN secret_edges} |-> 1]

\* decrypt_edges: every (from, to) decrypted
decrypt_edges(a, secret_edges) ==
    LET dec(e) == <<decrypt_activity(e[1]), decrypt_activity(e[2])>>
    IN [d \in {dec(e) : e \in DOMAIN secret_edges} |->
            SumOver(secret_edges, {e \in DOMAIN secret_edges : dec(e) = d})]

\* variant: only the activities of the logs are added, the sentinels are not
InitialActivitiesWithoutSentinels(a) ==
    [act \in (DOMAIN a.activity_to_pos) \ {"start", "end"} |-> 0]

\* the activities added before the edges are tallied: every key of the table
InitialActivities(a) ==
    [act \in DOMAIN a.activity_to_pos |-> 0]

\* evaluate_decrypted_edges_to_dfg panics (unwrap) on a from code outside the table
evaluate_panics(a, edges) ==
    \E e \in DOMAIN edges : e[1] \notin Range(a.activity_to_pos)

\* evaluate_decrypted_edges_to_dfg: edges from end are dropped, the others tallied
evaluate_decrypted_edges_to_dfg(a, edges) ==
    LET pos_to_activity == InvertTable(EmptyMap, a.activity_to_pos)
        found_edges_by_pos ==
            [e \in {x \in DOMAIN edges : pos_to_activity[x[1]] # "end"} |-> edges[e]]
        kept == {e \in DOMAIN found_edges_by_pos :
                    e[1] \in DOMAIN pos_to_activity /\ e[2] \in DOMAIN pos_to_activity}
        named == {<<pos_to_activity[e[1]], pos_to_activity[e[2]]>> : e \in kept}
    IN [NewGraph EXCEPT
            !.activities = InitialActivities(a),
            !.directly_follows_relations =
                [r \in named |->
                    SumOver(found_edges_by_pos,
                            {e \in kept : <<pos_to_activity[e[1]], pos_to_activity[e[2]]>> = r})]]

\* variant: the relation from the last activity to end is not added
PrivateTracePairsWithoutEnd(trace) ==
    ConsecutivePairs(<<"start">> \o [e \in DOMAIN trace.events |-> trace.events[e].activity])

\* the relations of one private trace: start -> a_0 -> ... -> a_(n-1) -> end
PrivateTracePairs(trace) ==
    ConsecutivePairs(<<"start">> \o [e \in DOMAIN trace.events |-> trace.events[e].activity]
                     \o <<"end">>)

\* update_graph_with_private_cases: every non-empty trace of A whose case id is
\* in own_case_ids and not in shared_case_ids adds its relations, each +1
update_graph_with_private_cases(a, dfg, own_case_ids, shared) ==
    LET non_shared_case_id == Range(own_case_ids) \ shared
        private == [t \in DOMAIN a.event_log |->
                        IF a.event_log[t].name \in non_shared_case_id
                           /\ a.event_log[t].events # <<>>
                        THEN PrivateTracePairs(a.event_log[t]) ELSE <<>>]
    IN AddRelations(dfg, Flatten(private))

(***************************************************************************)
(* Organization B (PublicKeyOrganization).                                 *)
(***************************************************************************)
\* get_cases_len
get_cases_len(b) == Len(b.all_case_names)

has_matching_case_id_last_only(b, foreign_case_id, own_case_ids) ==
    IF own_case_ids # <<>> /\ foreign_case_id = own_case_ids[Len(own_case_ids)]
    THEN b.true_val ELSE ~b.true_val

\* has_matching_case_id: result = not(true_val), set to true_val on every equal own id
has_matching_case_id(b, foreign_case_id, own_case_ids) ==
    LET RECURSIVE loop(_, _)
        loop(i, result) ==
            IF i > Len(own_case_ids) THEN result
            ELSE loop(i + 1, IF foreign_case_id = own_case_ids[i] THEN b.true_val ELSE result)
    IN loop(1, ~b.true_val)

\* find_shared_case_ids: (pos, is_matching) for every foreign case id
find_shared_case_ids(b, foreign_case_ids) ==
    LET own_case_ids == [t \in DOMAIN b.event_log |-> SipHash(b.event_log[t].name)]
    IN [pos \in DOMAIN foreign_case_ids |->
            <<pos, has_matching_case_id(b, foreign_case_ids[pos], own_case_ids)>>]

\* the counters added by find_shared_case_ids: per foreign id one selection,
\* and one comparison and one selection per own id
find_shared_case_ids_counters(b, foreign_case_ids, counters) ==
    [counters EXCEPT
        !.case_id_hom_comparisons = @ + Len(foreign_case_ids) * Len(b.event_log),
        !.case_id_hom_selections = @ + Len(foreign_case_ids) * (1 + Len(b.event_log))]

\* sanitize_sample_encryptions panics on a key >= len(), and on a missing key 0
sanitize_panics(samples) ==
    \/ \E val \in DOMAIN samples : val >= Cardinality(DOMAIN samples)
    \/ 0 \notin DOMAIN samples

\* variant: the samples are left as they are
sanitize_sample_encryptions_unchanged(samples) == samples

\* sanitize_sample_encryptions: a value that differs from its key becomes zero
sanitize_sample_encryptions(samples) ==
    LET zero == samples[0] - samples[0]
    IN [val \in DOMAIN samples |-> IF samples[val] # val THEN zero ELSE samples[val]]

\* set_activity_to_pos panics (unwrap) when the samples lack the key 0 or 1
set_activity_to_pos_panics(samples) ==
    0 \notin DOMAIN samples \/ 1 \notin DOMAIN samples

\* set_activity_to_pos
set_activity_to_pos(b, activity_to_pos, samples) ==
    [b EXCEPT !.activity_to_pos = activity_to_pos, !.start = samples[0], !.end = samples[1]]

ClampToEnd(act, max_activities) == IF act > max_activities THEN EndCode ELSE act

\* if *act > max_activities { *act = max_activities }
Clamp(act, max_activities) == IF act > max_activities THEN max_activities ELSE act

\* set_foreign_case_to_trace with max_activities = activity_to_pos.len() - 1
set_foreign_case_to_trace(b, foreign, max_activities) ==
    [b EXCEPT !.foreign_case_to_trace =
        [name \in DOMAIN foreign |->
            <<[i \in DOMAIN foreign[name][1] |-> Clamp(foreign[name][1][i], max_activities)],
              foreign[name][2]>>]]

\* the names compute_all_case_names collects: B's own and the foreign ones
AllCaseNameSet(b) ==
    Range(TraceNames(b.event_log)) \cup DOMAIN b.foreign_case_to_trace

\* compute_all_case_names; order is the outcome of the shuffle
compute_all_case_names(b, order) == [b EXCEPT !.all_case_names = order]

\* preprocess_trace_using_sample_encryption panics (unwrap) on an activity
\* without a code or a code without a sample
preprocess_panics(activity_to_pos, trace, samples) ==
    \E e \in DOMAIN trace.events :
        \/ trace.events[e].activity \notin DOMAIN activity_to_pos
        \/ activity_to_pos[trace.events[e].activity] \notin DOMAIN samples

\* variant: every event gets the sample of the code 0
preprocess_trace_using_first_sample(activity_to_pos, trace, samples) ==
    <<[e \in DOMAIN trace.events |-> samples[0] + 0],
      [e \in DOMAIN trace.events |-> trace.events[e].timestamp]>>

\* preprocess_trace_using_sample_encryption: (sample of the code + 0, timestamp)
preprocess_trace_using_sample_encryption(activity_to_pos, trace, samples) ==
    <<[e \in DOMAIN trace.events |-> samples[activity_to_pos[trace.events[e].activity]] + 0],
      [e \in DOMAIN trace.events |-> trace.events[e].timestamp]>>

encrypt_all_data_b_panics(b, samples) ==
    \E t \in DOMAIN b.event_log : preprocess_panics(b.activity_to_pos, b.event_log[t], samples)

\* encrypt_all_data of B (compute_case_to_trace_using_sample_encryption)
encrypt_all_data_b(b, samples) ==
    LET name_to_trace == find_name_trace_dictionary(b.event_log)
    IN [b EXCEPT !.own_case_to_trace =
            [name \in DOMAIN name_to_trace |->
                preprocess_trace_using_sample_encryption(b.activity_to_pos,
                                                         name_to_trace[name], samples)]]

\* .get(case_name).unwrap_or(&(Vec::new(), Vec::new()))
GetOrEmpty(case_to_trace, case_name) ==
    IF case_name \in DOMAIN case_to_trace THEN case_to_trace[case_name] ELSE <<<<>>, <<>>>>

\* find_secrets_for_case on the two sides B holds for a case name
SecretsOfCase(b, case_name) ==
    find_secrets_for_case(b,
        GetOrEmpty(b.foreign_case_to_trace, case_name)[1],
        GetOrEmpty(b.foreign_case_to_trace, case_name)[2],
        GetOrEmpty(b.own_case_to_trace, case_name)[1],
        GetOrEmpty(b.own_case_to_trace, case_name)[2])

\* get_secret_edges_len: foreign.len() + own.len() + 1 summed over all case names
get_secret_edges_len(b) ==
    SumSeq([i \in DOMAIN b.all_case_names |->
        Len(GetOrEmpty(b.foreign_case_to_trace, b.all_case_names[i])[1])
        + Len(GetOrEmpty(b.own_case_to_trace, b.all_case_names[i])[1]) + 1])

\* find_all_secrets(start_case, upper_bound): the cases all_case_names[start_case..upper_bound]
\* (0-based, upper bound excluded), their edges and the counters they add
find_all_secrets(b, start_case, upper_bound) ==
    LET intermediate_result ==
            [k \in 1..(upper_bound - start_case) |->
                SecretsOfCase(b, b.all_case_names[start_case + k])]
    IN [panic |-> \E k \in DOMAIN intermediate_result : intermediate_result[k].panic,
        edges |-> BagSum([k \in DOMAIN intermediate_result |->
                            BagOfSeq(intermediate_result[k].edges)]),
        timestamp_hom_comparisons |->
            SumSeq([k \in DOMAIN intermediate_result |->
                        intermediate_result[k].timestamp_hom_comparisons]),
        selection_hom_comparisons |->
            SumSeq([k \in DOMAIN intermediate_result |->
                        intermediate_result[k].selection_hom_comparisons])]

(***************************************************************************)
(* Spec: communicate(org_a, org_b, window_size), one action per call it    *)
(* makes, in the order of the code.  A panic of a call ends the run in     *)
(* pc = "panic".                                                           *)
(***************************************************************************)
Init ==
    /\ pc = "exchange_keys"
    /\ \E logA \in EventLogs, logB \in EventLogs :
          /\ org_a = NewPrivateKeyOrganization(logA)
          /\ org_b = NewPublicKeyOrganization(logB, encrypt_true)
    /\ window_size \in 1..MaxWindow
    /\ CommunicateIdle
    /\ call = NoCall

\* org_b.set_server_key(org_a.get_server_key())
ExchangeKeys ==
    /\ pc = "exchange_keys"
    /\ server_key_set' = TRUE
    /\ pc' = "encrypt_all_case_ids"
    /\ UNCHANGED <<org_a, org_b, window_size, org_a_case_ids, encrypted_case_ids,
                   shared_case_id_result, shared_case_ids, sample_encryptions,
                   org_a_encrypted_data, step, windows, decrypted_edges, graph, hom, call>>

\* (org_a_case_ids, encrypted_case_ids) = org_a.encrypt_all_case_ids()
EncryptAllCaseIds ==
    /\ pc = "encrypt_all_case_ids"
    /\ org_a_case_ids' = encrypt_all_case_ids(org_a).case_ids
    /\ encrypted_case_ids' = encrypt_all_case_ids(org_a).encrypted_case_ids
    /\ pc' = "find_shared_case_ids"
    /\ UNCHANGED <<org_a, org_b, window_size, server_key_set,
                   shared_case_id_result, shared_case_ids, sample_encryptions,
                   org_a_encrypted_data, step, windows, decrypted_edges, graph, hom, call>>

\* shared_case_id_result = org_b.find_shared_case_ids(&encrypted_case_ids)
FindSharedCaseIds ==
    /\ pc = "find_shared_case_ids"
    /\ shared_case_id_result' = find_shared_case_ids(org_b, encrypted_case_ids)
    /\ hom' = find_shared_case_ids_counters(org_b, encrypted_case_ids, hom)
    /\ pc' = "decrypt_shared_case_ids"
    /\ UNCHANGED <<org_a, org_b, window_size, server_key_set, org_a_case_ids,
                   encrypted_case_ids, shared_case_ids, sample_encryptions,
                   org_a_encrypted_data, step, windows, decrypted_edges, graph, call>>

\* shared_case_ids = org_a.decrypt_and_identify_shared_case_ids(&org_a_case_ids, &shared_case_id_result)
DecryptAndIdentifySharedCaseIds ==
    /\ pc = "decrypt_shared_case_ids"
    /\ shared_case_ids' =
          decrypt_and_identify_shared_case_ids(org_a_case_ids, shared_case_id_result)
    /\ pc' = "update_with_foreign_activities"
    /\ UNCHANGED <<org_a, org_b, window_size, server_key_set, org_a_case_ids,
                   encrypted_case_ids, shared_case_id_result, sample_encryptions,
                   org_a_encrypted_data, step, windows, decrypted_edges, graph, hom, call>>

\* activities_b = org_b.find_activities();
\* agreed_activity_to_pos = org_a.update_with_foreign_activities(activities_b)
UpdateWithForeignActivities ==
    /\ pc = "update_with_foreign_activities"
    /\ LET activities_b == find_activities(org_b.event_log)
       IN \E order \in Orders(find_activities(org_a.event_log) \cup activities_b) :
             org_a' = update_with_foreign_activities(org_a, activities_b, order)
    /\ pc' = "provide_sample_encryptions"
    /\ UNCHANGED <<org_b, window_size, server_key_set, org_a_case_ids,
                   encrypted_case_ids, shared_case_id_result, shared_case_ids,
                   sample_encryptions, org_a_encrypted_data, step, windows,
                   decrypted_edges, graph, hom, call>>

\* sample_encryptions = org_a.provide_sample_encryptions()
ProvideSampleEncryptions ==
    /\ pc = "provide_sample_encryptions"
    /\ sample_encryptions' = provide_sample_encryptions(org_a)
    /\ pc' = "sanitize_sample_encryptions"
    /\ UNCHANGED <<org_a, org_b, window_size, server_key_set, org_a_case_ids,
                   encrypted_case_ids, shared_case_id_result, shared_case_ids,
                   org_a_encrypted_data, step, windows, decrypted_edges, graph, hom, call>>

\* variant: after the sanitization A's traces are sent, the table is not installed
SanitizeSampleEncryptionsThenData ==
    /\ pc = "sanitize_sample_encryptions"
    /\ IF sanitize_panics(sample_encryptions)
       THEN pc' = "panic" /\ UNCHANGED sample_encryptions
       ELSE /\ sample_encryptions' = sanitize_sample_encryptions(sample_encryptions)
            /\ pc' = "encrypt_all_data_a"
    /\ UNCHANGED <<org_a, org_b, window_size, server_key_set, org_a_case_ids,
                   encrypted_case_ids, shared_case_id_result, shared_case_ids,
                   org_a_encrypted_data, step, windows, decrypted_edges, graph, hom, call>>

\* org_b.sanitize_sample_encryptions(&mut sample_encryptions)
SanitizeSampleEncryptions ==
    /\ pc = "sanitize_sample_encryptions"
    /\ IF sanitize_panics(sample_encryptions)
       THEN pc' = "panic" /\ UNCHANGED sample_encryptions
       ELSE /\ sample_encryptions' = sanitize_sample_encryptions(sample_encryptions)
            /\ pc' = "set_activity_to_pos"
    /\ UNCHANGED <<org_a, org_b, window_size, server_key_set, org_a_case_ids,
                   encrypted_case_ids, shared_case_id_result, shared_case_ids,
                   org_a_encrypted_data, step, windows, decrypted_edges, graph, hom, call>>

\* org_b.set_activity_to_pos(agreed_activity_to_pos, &sample_encryptions)
SetActivityToPos ==
    /\ pc = "set_activity_to_pos"
    /\ IF set_activity_to_pos_panics(sample_encryptions)
       THEN pc' = "panic" /\ UNCHANGED org_b
       ELSE /\ org_b' = set_activity_to_pos(org_b, org_a.activity_to_pos, sample_encryptions)
            /\ pc' = "encrypt_all_data_a"
    /\ UNCHANGED <<org_a, window_size, server_key_set, org_a_case_ids,
                   encrypted_case_ids, shared_case_id_result, shared_case_ids,
                   sample_encryptions, org_a_encrypted_data, step, windows,
                   decrypted_edges, graph, hom, call>>

\* org_a_encrypted_data = org_a.encrypt_all_data(&shared_case_ids)
EncryptAllDataA ==
    /\ pc = "encrypt_all_data_a"
    /\ org_a_encrypted_data' = encrypt_all_data_a(org_a, shared_case_ids)
    /\ pc' = "set_foreign_case_to_trace"
    /\ UNCHANGED <<org_a, org_b, window_size, server_key_set, org_a_case_ids,
                   encrypted_case_ids, shared_case_id_result, shared_case_ids,
                   sample_encryptions, step, windows, decrypted_edges, graph, hom, call>>

\* org_b.set_foreign_case_to_trace(org_a_encrypted_data).  With an empty table
\* activity_to_pos.len() - 1 underflows: a panic with overflow checks, and
\* otherwise the wrapped value does not fit u16 and max_activities is 0.
SetForeignCaseToTrace ==
    /\ pc = "set_foreign_case_to_trace"
    /\ \E overflow_checks \in BOOLEAN :
          IF DOMAIN org_b.activity_to_pos = {} /\ overflow_checks
          THEN pc' = "panic" /\ UNCHANGED org_b
          ELSE /\ org_b' = set_foreign_case_to_trace(org_b, org_a_encrypted_data,
                              IF DOMAIN org_b.activity_to_pos = {} THEN 0
                              ELSE Cardinality(DOMAIN org_b.activity_to_pos) - 1)
               /\ pc' = "compute_all_case_names"
    /\ UNCHANGED <<org_a, window_size, server_key_set, org_a_case_ids,
                   encrypted_case_ids, shared_case_id_result, shared_case_ids,
                   sample_encryptions, org_a_encrypted_data, step, windows,
                   decrypted_edges, graph, hom, call>>

\* org_b.compute_all_case_names(): the names in a shuffled order
ComputeAllCaseNames ==
    /\ pc = "compute_all_case_names"
    /\ \E order \in Orders(AllCaseNameSet(org_b)) :
          org_b' = compute_all_case_names(org_b, order)
    /\ pc' = "encrypt_all_data_b"
    /\ UNCHANGED <<org_a, window_size, server_key_set, org_a_case_ids,
                   encrypted_case_ids, shared_case_id_result, shared_case_ids,
                   sample_encryptions, org_a_encrypted_data, step, windows,
                   decrypted_edges, graph, hom, call>>

\* org_b.encrypt_all_data(&sample_encryptions); then the loop over
\* (0..max_size).step_by(window_size) starts at step 0
EncryptAllDataB ==
    /\ pc = "encrypt_all_data_b"
    /\ IF encrypt_all_data_b_panics(org_b, sample_encryptions)
       THEN pc' = "panic" /\ UNCHANGED org_b
       ELSE /\ org_b' = encrypt_all_data_b(org_b, sample_encryptions)
            /\ pc' = "windows"
    /\ step' = 0
    /\ UNCHANGED <<org_a, window_size, server_key_set, org_a_case_ids,
                   encrypted_case_ids, shared_case_id_result, shared_case_ids,
                   sample_encryptions, org_a_encrypted_data, windows,
                   decrypted_edges, graph, hom, call>>

\* the closure of the loop when step + window_size > max_size: return Vec::new()
WindowSkipped ==
    /\ pc = "windows"
    /\ step < get_cases_len(org_b)
    /\ step + window_size > get_cases_len(org_b)
    /\ step' = step + window_size
    /\ UNCHANGED <<pc, org_a, org_b, window_size, server_key_set, org_a_case_ids,
                   encrypted_case_ids, shared_case_id_result, shared_case_ids,
                   sample_encryptions, org_a_encrypted_data, windows,
                   decrypted_edges, graph, hom, call>>

\* the upper bound the closure passes to find_all_secrets
UpperBoundAlwaysNextStep(s, w, max_size) == s + w

UpperBound(s, w, max_size) == IF s + 2 * w > max_size THEN max_size ELSE s + w

\* the closure of the loop otherwise: find_all_secrets(step, upper_bound), then
\* org_a.decrypt_edges of what it returns
WindowComputed ==
    /\ pc = "windows"
    /\ step < get_cases_len(org_b)
    /\ ~(step + window_size > get_cases_len(org_b))
    /\ LET upper_bound == UpperBound(step, window_size, get_cases_len(org_b))
           org_b_secrets == find_all_secrets(org_b, step, upper_bound)
       IN /\ windows' = Append(windows, <<step, upper_bound>>)
          /\ IF org_b_secrets.panic
             THEN pc' = "panic" /\ UNCHANGED <<decrypted_edges, hom, step>>
             ELSE /\ decrypted_edges' =
                        Append(decrypted_edges, decrypt_edges(org_a, org_b_secrets.edges))
                  /\ hom' = [hom EXCEPT
                        !.timestamp_hom_comparisons = @ + org_b_secrets.timestamp_hom_comparisons,
                        !.selection_hom_comparisons = @ + org_b_secrets.selection_hom_comparisons]
                  /\ step' = step + window_size
                  /\ UNCHANGED pc
    /\ UNCHANGED <<org_a, org_b, window_size, server_key_set, org_a_case_ids,
                   encrypted_case_ids, shared_case_id_result, shared_case_ids,
                   sample_encryptions, org_a_encrypted_data, graph, call>>

\* the loop is over: graph = org_a.evaluate_decrypted_edges_to_dfg(decrypted_edges)
EvaluateDecryptedEdgesToDfg ==
    /\ pc = "windows"
    /\ step >= get_cases_len(org_b)
    /\ IF evaluate_panics(org_a, BagSum(decrypted_edges))
       THEN pc' = "panic" /\ UNCHANGED graph
       ELSE /\ graph' = evaluate_decrypted_edges_to_dfg(org_a, BagSum(decrypted_edges))
            /\ pc' = "update_graph_with_private_cases"
    /\ UNCHANGED <<org_a, org_b, window_size, server_key_set, org_a_case_ids,
                   encrypted_case_ids, shared_case_id_result, shared_case_ids,
                   sample_encryptions, org_a_encrypted_data, step, windows,
                   decrypted_edges, hom, call>>

\* org_a.update_graph_with_private_cases(&mut graph, &org_a_case_ids, &shared_case_ids)
UpdateGraphWithPrivateCases ==
    /\ pc = "update_graph_with_private_cases"
    /\ graph' = update_graph_with_private_cases(org_a, graph, org_a_case_ids, shared_case_ids)
    /\ pc' = "recalculate_activity_counts"
    /\ UNCHANGED <<org_a, org_b, window_size, server_key_set, org_a_case_ids,
                   encrypted_case_ids, shared_case_id_result, shared_case_ids,
                   sample_encryptions, org_a_encrypted_data, step, windows,
                   decrypted_edges, hom, call>>

InsertSentinelsSwapped(g) ==
    [g EXCEPT !.start_activities = @ \cup {"end"}, !.end_activities = @ \cup {"start"}]

\* graph.start_activities.insert("start"); graph.end_activities.insert("end")
InsertSentinels(g) ==
    [g EXCEPT !.start_activities = @ \cup {"start"}, !.end_activities = @ \cup {"end"}]

\* utils::recalculate_activity_counts(&mut graph), the two inserts, and the return
RecalculateActivityCounts ==
    /\ pc = "recalculate_activity_counts"
    /\ graph' = InsertSentinels(recalculate_activity_counts(graph))
    /\ pc' = "done"
    /\ UNCHANGED <<org_a, org_b, window_size, server_key_set, org_a_case_ids,
                   encrypted_case_ids, shared_case_id_result, shared_case_ids,
                   sample_encryptions, org_a_encrypted_data, step, windows,
                   decrypted_edges, hom, call>>

Next ==
    \/ ExchangeKeys
    \/ EncryptAllCaseIds
    \/ FindSharedCaseIds
    \/ DecryptAndIdentifySharedCaseIds
    \/ UpdateWithForeignActivities
    \/ ProvideSampleEncryptions
    \/ SanitizeSampleEncryptions
    \/ SetActivityToPos
    \/ EncryptAllDataA
    \/ SetForeignCaseToTrace
    \/ ComputeAllCaseNames
    \/ EncryptAllDataB
    \/ WindowSkipped
    \/ WindowComputed
    \/ EvaluateDecryptedEdgesToDfg
    \/ UpdateGraphWithPrivateCases
    \/ RecalculateActivityCounts

Spec == Init /\ [][Next]_vars

(***************************************************************************)
(* The plaintext oracle of a run: per case id, the events of A and of B    *)
(* merged in timestamp order (A before B on equal timestamps), every       *)
(* non-empty merged case wrapped as start -> e_1 -> ... -> e_n -> end, and *)
(* every consecutive pair counted once.                                    *)
(***************************************************************************)
EventsOf(event_log, case_id) ==
    IF \E t \in DOMAIN event_log : event_log[t].name = case_id
    THEN event_log[CHOOSE t \in DOMAIN event_log : event_log[t].name = case_id].events
    ELSE <<>>

ActivitiesOf(events) == [e \in DOMAIN events |-> events[e].activity]
TimestampsOf(events) == [e \in DOMAIN events |-> events[e].timestamp]

PlainCaseMerged(case_id) ==
    MergedCase(ActivitiesOf(EventsOf(org_a.event_log, case_id)),
               TimestampsOf(EventsOf(org_a.event_log, case_id)),
               ActivitiesOf(EventsOf(org_b.event_log, case_id)),
               TimestampsOf(EventsOf(org_b.event_log, case_id)))

PlainCasePairs(case_id) ==
    IF PlainCaseMerged(case_id) = <<>> THEN <<>>
    ELSE WrappedPairs("start", PlainCaseMerged(case_id), "end")

PlainRelations ==
    BagSum([i \in 1..MaxTraces |-> BagOfSeq(PlainCasePairs(CaseIdList[i]))])

CaseIdsOf(event_log) == Range(TraceNames(event_log))

\* the sums of the frequencies of the relations entering and leaving a vertex
InFrequency(g, v) ==
    SumOver(g.directly_follows_relations, {r \in DOMAIN g.directly_follows_relations : r[2] = v})
OutFrequency(g, v) ==
    SumOver(g.directly_follows_relations, {r \in DOMAIN g.directly_follows_relations : r[1] = v})

\* positions of communicate
BeforeSharedCaseIds ==
    {"exchange_keys", "encrypt_all_case_ids", "find_shared_case_ids", "decrypt_shared_case_ids"}
BeforeCodeTable == BeforeSharedCaseIds \cup {"update_with_foreign_activities"}
LoopOver == {"update_graph_with_private_cases", "recalculate_activity_counts", "done"}

(***************************************************************************)
(* C1: the directly-follows relations and frequencies of the graph         *)
(* returned by communicate equal those of the plaintext merge of the two   *)
(* logs per case id.                                                       *)
(***************************************************************************)
C1_GraphEqualsPlaintextMerge ==
    pc = "done" => graph.directly_follows_relations = PlainRelations

(***************************************************************************)
(* C3: the set returned by decrypt_and_identify_shared_case_ids is exactly *)
(* the set of case ids occurring in both logs.                             *)
(***************************************************************************)
C3_SharedIsIntersection ==
    pc \notin BeforeSharedCaseIds
    => shared_case_ids = CaseIdsOf(org_a.event_log) \cap CaseIdsOf(org_b.event_log)

\* a shared case that is not the last trace of B, and a case that B holds alone
C3_Witness ==
    /\ pc = "update_with_foreign_activities"
    /\ shared_case_ids # {}
    /\ Len(org_b.event_log) = 2
    /\ org_b.event_log[1].name \in shared_case_ids
    /\ org_b.event_log[2].name \notin CaseIdsOf(org_a.event_log)

(***************************************************************************)
(* C4: the windows [step, upper_bound) passed to find_all_secrets cover    *)
(* every case index 0..N-1 exactly once, for every window_size and N.      *)
(***************************************************************************)
C4_WindowsCoverEveryCaseOnce ==
    pc \in LoopOver
    => \A k \in 0..(get_cases_len(org_b) - 1) :
          Cardinality({w \in DOMAIN windows : windows[w][1] <= k /\ k < windows[w][2]}) = 1

(***************************************************************************)
(* C5: after update_with_foreign_activities the table maps start to 0, end *)
(* to 1 and every activity name of either log to one code in [2, K); the   *)
(* codes are distinct and fill [0, K), and pos_to_activity is the inverse. *)
(***************************************************************************)
C5_CodeTableBijection ==
    pc \notin BeforeCodeTable
    => LET table == org_a.activity_to_pos
           K == Cardinality(DOMAIN table)
       IN /\ "start" \in DOMAIN table /\ table["start"] = 0
          /\ "end" \in DOMAIN table /\ table["end"] = 1
          /\ \A act \in find_activities(org_a.event_log) \cup find_activities(org_b.event_log) :
                act \in DOMAIN table /\ table[act] \in 2..(K - 1)
          /\ \A x, y \in DOMAIN table : table[x] = table[y] => x = y
          /\ Range(table) = 0..(K - 1)
          /\ DOMAIN org_a.pos_to_activity = Range(table)
          /\ \A act \in DOMAIN table : org_a.pos_to_activity[table[act]] = act

\* a table of four codes with an activity that only B's log has
C5_Witness ==
    /\ pc = "provide_sample_encryptions"
    /\ Cardinality(DOMAIN org_a.activity_to_pos) = 4
    /\ find_activities(org_b.event_log) \ find_activities(org_a.event_log) # {}
    /\ find_activities(org_a.event_log) # {}

C8_ActivityCounts ==
    pc = "done"
    => /\ \A r \in DOMAIN graph.directly_follows_relations :
             r[1] \in DOMAIN graph.activities /\ r[2] \in DOMAIN graph.activities
       /\ \A v \in DOMAIN graph.activities :
             graph.activities[v] = Max(InFrequency(graph, v), OutFrequency(graph, v))

\* a run with a private case of A and a computed window
C8_Witness ==
    /\ pc = "done"
    /\ \E t \in DOMAIN org_a.event_log :
          org_a.event_log[t].name \notin shared_case_ids /\ org_a.event_log[t].events # <<>>
    /\ windows # <<>>
    /\ graph.activities["start"] >= 2
    /\ \E v \in DOMAIN graph.activities : InFrequency(graph, v) # OutFrequency(graph, v)

(***************************************************************************)
(* SpecSan: B's side of communicate, from the sanitization of the sample   *)
(* encryptions to the windows, on whatever A sends: any sample map with    *)
(* keys up to MaxSampleKey, any activity codes up to MaxSampleKey + 1 in   *)
(* A's traces.  B received the agreed table (org_a.activity_to_pos).       *)
(***************************************************************************)
MaxSampleKey == NumActs + 2

\* the agreed table of start, end and the first m activity names
AgreedTable(m) ==
    [act \in {"start", "end"} \cup {ActivityList[i] : i \in 1..m} |->
        IF act = "start" THEN StartCode
        ELSE IF act = "end" THEN EndCode
        ELSE 1 + (CHOOSE i \in 1..m : ActivityList[i] = act)]

\* sample maps: any key set, every value its key or another value
SampleMaps ==
    UNION {[keys -> 0..1] : keys \in SUBSET (0..MaxSampleKey)}

SampleMapOf(f) == [k \in DOMAIN f |-> k + f[k]]

\* what A sends for the case c1: nothing, or a trace with any codes
ForeignData ==
    {EmptyMap} \cup
    UNION {{("c1" :> <<codes, ts>>) :
                codes \in [1..n -> 0..(MaxSampleKey + 1)], ts \in SortedTimes(n, MaxTime)} :
           n \in 0..MaxLen}

\* B's log: no trace, or one trace with at most one event
SanLogs ==
    {<<>>} \cup
    {<<[name |-> c, events |-> ev]>> :
        c \in CaseIds,
        ev \in {<<>>} \cup {<<[activity |-> act, timestamp |-> 1]>> : act \in ActivityNames}}

\* either the samples or the traces A sends are arbitrary, the other as A computes them
InitSan ==
    /\ pc = "sanitize_sample_encryptions"
    /\ \E m \in 0..NumActs :
          org_a = [NewPrivateKeyOrganization(<<>>) EXCEPT
                        !.activity_to_pos = AgreedTable(m),
                        !.pos_to_activity = InvertTable(EmptyMap, AgreedTable(m))]
    /\ \E logB \in SanLogs : org_b = NewPublicKeyOrganization(logB, encrypt_true)
    /\ window_size \in 1..2
    /\ server_key_set = TRUE
    /\ org_a_case_ids = <<>>
    /\ encrypted_case_ids = <<>>
    /\ shared_case_id_result = <<>>
    /\ shared_case_ids = {}
    /\ \/ /\ \E f \in SampleMaps : sample_encryptions = SampleMapOf(f)
          /\ org_a_encrypted_data \in {EmptyMap, ("c1" :> << <<2>>, <<1>> >>)}
       \/ /\ sample_encryptions = provide_sample_encryptions(org_a)
          /\ org_a_encrypted_data \in ForeignData
    /\ step = 0
    /\ windows = <<>>
    /\ decrypted_edges = <<>>
    /\ graph = NewGraph
    /\ hom = NewCounters
    /\ call = NoCall

\* B receives org_a_encrypted_data as A sent it
ReceiveEncryptedData ==
    /\ pc = "encrypt_all_data_a"
    /\ pc' = "set_foreign_case_to_trace"
    /\ UNCHANGED <<org_a, org_b, window_size, server_key_set, org_a_case_ids,
                   encrypted_case_ids, shared_case_id_result, shared_case_ids,
                   sample_encryptions, org_a_encrypted_data, step, windows,
                   decrypted_edges, graph, hom, call>>

NextSan ==
    \/ SanitizeSampleEncryptions
    \/ SetActivityToPos
    \/ ReceiveEncryptedData
    \/ SetForeignCaseToTrace
    \/ ComputeAllCaseNames
    \/ EncryptAllDataB
    \/ WindowSkipped
    \/ WindowComputed

SpecSan == InitSan /\ [][NextSan]_vars

\* K, the size of the agreed code table
TableSize == Cardinality(DOMAIN org_a.activity_to_pos)

C10_MalformedSamplesAbort ==
    LET keys == DOMAIN sample_encryptions
        malformed == (\E k \in keys : k >= TableSize) \/ (\E c \in 0..(TableSize - 1) : c \notin keys)
    IN /\ malformed => pc \in {"sanitize_sample_encryptions", "panic"}
       /\ (malformed /\ pc = "panic") => windows = <<>>
       /\ keys = 0..(TableSize - 1) => ~(pc = "panic" /\ org_b.start = None)

(***************************************************************************)
(* SpecCase: one call of find_secrets_for_case on the two sides of a case. *)
(* B holds start = 0 and end = 1 (set_activity_to_pos on sanitized         *)
(* samples); the activity codes of the events are codes of real            *)
(* activities, 2 and above.                                                *)
(***************************************************************************)
\* the activity codes given to the n events of one side: every assignment of
\* the codes 2 and 3, and the assignment of a distinct code to every position
CaseActivities(n, base) ==
    [1..n -> {2, 3}] \cup {[i \in 1..n |-> base + i]}

CaseSides(base) ==
    UNION {CaseActivities(n, base) \X SortedTimes(n, MaxCaseTime) : n \in 0..MaxEvents}

InitCase ==
    /\ pc = "case"
    /\ org_a = NewPrivateKeyOrganization(<<>>)
    /\ org_b = [NewPublicKeyOrganization(<<>>, TRUE) EXCEPT !.start = StartCode, !.end = EndCode]
    /\ window_size = 1
    /\ CommunicateIdle
    /\ \E f \in CaseSides(3), o \in CaseSides(3 + MaxEvents) :
          call = [NoCall EXCEPT !.foreign_activities = f[1], !.foreign_timestamps = f[2],
                                !.own_activities = o[1], !.own_timestamps = o[2]]

\* the call: find_secrets_for_case(foreign_activities, foreign_timestamps,
\* own_activities, own_timestamps, &mut timestamp_hom_comparisons, &mut selection_hom_comparisons)
CallFindSecretsForCase ==
    /\ pc = "case"
    /\ ~call.returned
    /\ LET r == find_secrets_for_case(org_b, call.foreign_activities, call.foreign_timestamps,
                                      call.own_activities, call.own_timestamps)
       IN /\ call' = [call EXCEPT !.returned = TRUE, !.panic = r.panic, !.edges = r.edges]
          /\ hom' = IF r.panic THEN hom
                    ELSE [hom EXCEPT
                            !.timestamp_hom_comparisons = @ + r.timestamp_hom_comparisons,
                            !.selection_hom_comparisons = @ + r.selection_hom_comparisons]
    /\ UNCHANGED <<pc, org_a, org_b, window_size, server_key_set, org_a_case_ids,
                   encrypted_case_ids, shared_case_id_result, shared_case_ids,
                   sample_encryptions, org_a_encrypted_data, step, windows,
                   decrypted_edges, graph>>

NextCase == CallFindSecretsForCase

SpecCase == InitCase /\ [][NextCase]_vars

(***************************************************************************)
(* C2: for one case with p >= 1 events of A and q >= 1 events of B, the    *)
(* multiset of edges returned by find_secrets_for_case is the multiset of  *)
(* consecutive pairs of start, m_1, ..., m_(p+q), end, with m the stable   *)
(* merge of the two sides by timestamp, A before B on equal timestamps.    *)
(***************************************************************************)
C2_MergedEdges ==
    (call.returned /\ call.foreign_activities # <<>> /\ call.own_activities # <<>>)
    => /\ ~call.panic
       /\ BagOfSeq(call.edges) =
            BagOfSeq(WrappedPairs(StartCode,
                                  MergedCase(call.foreign_activities, call.foreign_timestamps,
                                             call.own_activities, call.own_timestamps),
                                  EndCode))

\* a tie between an A event and a B event, both sides with several events
C2_Witness ==
    /\ call.returned
    /\ Len(call.foreign_activities) >= 2
    /\ Len(call.own_activities) >= 2
    /\ \E i \in DOMAIN call.foreign_timestamps, j \in DOMAIN call.own_timestamps :
          /\ call.foreign_timestamps[i] = call.own_timestamps[j]
          /\ call.foreign_activities[i] # call.own_activities[j]
    /\ Len(call.edges) = Len(call.foreign_activities) + Len(call.own_activities) + 1

(***************************************************************************)
(* SpecPrivate: update_graph_with_private_cases on a graph tallied from    *)
(* decrypted edges, for any log of A with traces of up to MaxPrivateLen    *)
(* events (two traces may carry the same case id) and any set of shared    *)
(* case ids; then the recount.                                             *)
(***************************************************************************)
PrivateEventSeqs ==
    UNION {{[i \in 1..n |-> [activity |-> acts[i], timestamp |-> i]] :
                acts \in [1..n -> ActivityNames]} :
           n \in 0..MaxPrivateLen}

PrivateTraces == {[name |-> c, events |-> ev] : c \in CaseIds, ev \in PrivateEventSeqs}

PrivateLogs == UNION {[1..n -> PrivateTraces] : n \in 0..MaxTraces}

\* the edges decrypted before the call: none, or start -> a (2), a -> a (1), a -> end (2)
PrivateDecryptedEdges ==
    {EmptyBag, (<<0, 2>> :> 2) @@ (<<2, 2>> :> 1) @@ (<<2, 1>> :> 2)}

InitPrivate ==
    /\ pc = "update_graph_with_private_cases"
    /\ \E logA \in PrivateLogs :
          /\ org_a = [NewPrivateKeyOrganization(logA) EXCEPT
                        !.activity_to_pos = AgreedTable(NumActs),
                        !.pos_to_activity = InvertTable(EmptyMap, AgreedTable(NumActs))]
          /\ org_a_case_ids = TraceNames(logA)
    /\ org_b = NewPublicKeyOrganization(<<>>, encrypt_true)
    /\ window_size = 1
    /\ server_key_set = TRUE
    /\ encrypted_case_ids = <<>>
    /\ shared_case_id_result = <<>>
    /\ shared_case_ids \in SUBSET CaseIds
    /\ sample_encryptions = EmptyMap
    /\ org_a_encrypted_data = EmptyMap
    /\ step = 0
    /\ windows = <<>>
    /\ \E edges \in PrivateDecryptedEdges :
          /\ decrypted_edges = <<edges>>
          /\ graph = evaluate_decrypted_edges_to_dfg(org_a, edges)
    /\ hom = NewCounters
    /\ call = NoCall

NextPrivate ==
    \/ UpdateGraphWithPrivateCases
    \/ RecalculateActivityCounts

SpecPrivate == InitPrivate /\ [][NextPrivate]_vars

\* the frequency of a relation in a graph, 0 when it is absent
Frequency(g, r) ==
    IF r \in DOMAIN g.directly_follows_relations THEN g.directly_follows_relations[r] ELSE 0

\* the i-th relation of start -> a_1 -> ... -> a_n -> end, i in 0..n
PrivateRelation(events, i) ==
    <<IF i = 0 THEN "start" ELSE events[i].activity,
      IF i = Len(events) THEN "end" ELSE events[i + 1].activity>>

\* how often r is a relation of a non-empty trace of A whose case id is not shared
PrivateOccurrences(r) ==
    Cardinality({ti \in (DOMAIN org_a.event_log) \X (0..MaxPrivateLen) :
        /\ org_a.event_log[ti[1]].name \notin shared_case_ids
        /\ org_a.event_log[ti[1]].events # <<>>
        /\ ti[2] <= Len(org_a.event_log[ti[1]].events)
        /\ PrivateRelation(org_a.event_log[ti[1]].events, ti[2]) = r})

(***************************************************************************)
(* C11: update_graph_with_private_cases adds, for every non-empty trace of *)
(* A whose case id is not shared, the relations start -> a_0, a_i ->       *)
(* a_(i+1) and a_(n-1) -> end with +1 each, nothing for a trace whose case *)
(* id is shared, and keeps the frequencies the graph had.                  *)
(***************************************************************************)
C11_PrivateCasesAdded ==
    [][pc = "update_graph_with_private_cases"
       => /\ pc' = "recalculate_activity_counts"
          /\ \A r \in (ActivityNames \cup {"start", "end"}) \X (ActivityNames \cup {"start", "end"}) :
                Frequency(graph', r) = Frequency(graph, r) + PrivateOccurrences(r)
          /\ DOMAIN graph'.directly_follows_relations \subseteq
                (ActivityNames \cup {"start", "end"}) \X (ActivityNames \cup {"start", "end"})
          /\ \A r \in DOMAIN graph'.directly_follows_relations : Frequency(graph', r) >= 1]_vars

\* a private trace of two events, a non-empty shared trace, and a graph that
\* already had relations
C11_Witness ==
    /\ pc = "recalculate_activity_counts"
    /\ decrypted_edges # <<EmptyBag>>
    /\ \E t \in DOMAIN org_a.event_log :
          org_a.event_log[t].name \notin shared_case_ids /\ Len(org_a.event_log[t].events) = 2
    /\ \E t \in DOMAIN org_a.event_log :
          org_a.event_log[t].name \in shared_case_ids /\ org_a.event_log[t].events # <<>>
    /\ Frequency(graph, <<"a", "a">>) >= 2

(***************************************************************************)
(* communicate as a function of its arguments: the calls of the actions of *)
(* Spec, composed in the order of the code.  The outcome is a set, one     *)
(* element per iteration order of the activity set and per shuffle of the  *)
(* case names.                                                             *)
(***************************************************************************)
Panicked == [panic |-> TRUE, graph |-> NewGraph]

RECURSIVE communicate_windows(_, _, _, _)
\* the loop over (0..max_size).step_by(window_size): the decrypted edges per window
communicate_windows(a, b, s, w) ==
    IF s >= get_cases_len(b) THEN [panic |-> FALSE, edges |-> <<>>]
    ELSE IF s + w > get_cases_len(b) THEN communicate_windows(a, b, s + w, w)
    ELSE LET org_b_secrets == find_all_secrets(b, s, UpperBound(s, w, get_cases_len(b)))
             rest == communicate_windows(a, b, s + w, w)
         IN IF org_b_secrets.panic THEN [panic |-> TRUE, edges |-> <<>>]
            ELSE [panic |-> rest.panic,
                  edges |-> <<decrypt_edges(a, org_b_secrets.edges)>> \o rest.edges]

\* from org_b.encrypt_all_data to the return
communicate_from_names(a, b, samples, own_case_ids, shared, w) ==
    IF encrypt_all_data_b_panics(b, samples) THEN {Panicked}
    ELSE LET r == communicate_windows(a, encrypt_all_data_b(b, samples), 0, w)
         IN IF r.panic THEN {Panicked}
            ELSE IF evaluate_panics(a, BagSum(r.edges)) THEN {Panicked}
            ELSE {[panic |-> FALSE,
                   graph |-> InsertSentinels(recalculate_activity_counts(
                                update_graph_with_private_cases(a,
                                    evaluate_decrypted_edges_to_dfg(a, BagSum(r.edges)),
                                    own_case_ids, shared)))]}

\* from provide_sample_encryptions to compute_all_case_names (the table of a
\* holds start and end, so activity_to_pos.len() - 1 does not underflow)
communicate_from_table(a, b, own_case_ids, shared, w) ==
    IF sanitize_panics(provide_sample_encryptions(a)) THEN {Panicked}
    ELSE LET samples == sanitize_sample_encryptions(provide_sample_encryptions(a))
         IN IF set_activity_to_pos_panics(samples) THEN {Panicked}
            ELSE LET b2 == set_foreign_case_to_trace(
                              set_activity_to_pos(b, a.activity_to_pos, samples),
                              encrypt_all_data_a(a, shared),
                              Cardinality(DOMAIN a.activity_to_pos) - 1)
                 IN UNION {communicate_from_names(a, compute_all_case_names(b2, order),
                                                  samples, own_case_ids, shared, w) :
                           order \in Orders(AllCaseNameSet(b2))}

\* communicate(org_a, org_b, window_size) on new organizations with the two logs
communicate(logA, logB, w) ==
    LET a == NewPrivateKeyOrganization(logA)
        b == NewPublicKeyOrganization(logB, encrypt_true)
        ids == encrypt_all_case_ids(a)
        shared == decrypt_and_identify_shared_case_ids(ids.case_ids,
                        find_shared_case_ids(b, ids.encrypted_case_ids))
        activities_b == find_activities(logB)
    IN UNION {communicate_from_table(update_with_foreign_activities(a, activities_b, order),
                                     b, ids.case_ids, shared, w) :
              order \in Orders(find_activities(logA) \cup activities_b)}

\* the logs with the traces of a log in another order
TraceOrders(event_log) ==
    {[i \in DOMAIN event_log |-> event_log[p[i]]] : p \in Orders(DOMAIN event_log)}

EdgeLists ==
    UNION {[1..n -> (0..MaxSampleKey) \X (0..MaxSampleKey)] : n \in 0..MaxEdges}

InitEdges ==
    /\ pc = "decrypt_edges"
    /\ \E m \in 0..NumActs :
          org_a = [NewPrivateKeyOrganization(<<>>) EXCEPT
                        !.activity_to_pos = AgreedTable(m),
                        !.pos_to_activity = InvertTable(EmptyMap, AgreedTable(m))]
    /\ org_b = NewPublicKeyOrganization(<<>>, encrypt_true)
    /\ window_size = 1
    /\ CommunicateIdle
    /\ \E edges \in EdgeLists : call = [NoCall EXCEPT !.edges = edges]

\* org_a.decrypt_edges(org_b_secrets) on the list B returned; no case is left
DecryptEdges ==
    /\ pc = "decrypt_edges"
    /\ decrypted_edges' = <<decrypt_edges(org_a, BagOfSeq(call.edges))>>
    /\ pc' = "windows"
    /\ UNCHANGED <<org_a, org_b, window_size, server_key_set, org_a_case_ids,
                   encrypted_case_ids, shared_case_id_result, shared_case_ids,
                   sample_encryptions, org_a_encrypted_data, step, windows,
                   graph, hom, call>>

NextEdges ==
    \/ DecryptEdges
    \/ EvaluateDecryptedEdgesToDfg

SpecEdges == InitEdges /\ [][NextEdges]_vars

\* the codes of the table of A, and the number of occurrences of an edge in the list
TableCodes == Range(org_a.activity_to_pos)
Occurrences(edges, e) == Cardinality({i \in DOMAIN edges : edges[i] = e})

(***************************************************************************)
(* C13: evaluate_decrypted_edges_to_dfg drops every edge whose from code   *)
(* is the code of end; for every other pair (from, to) of codes of the     *)
(* table the graph has (name(from), name(to)) with the number of           *)
(* occurrences of (from, to) in the list as frequency; and no relation is  *)
(* present that does not occur in the list.                                *)
(***************************************************************************)
C13_EdgesTallied ==
    pc = "update_graph_with_private_cases"
    => /\ \A from \in TableCodes, to \in TableCodes :
             LET r == <<org_a.pos_to_activity[from], org_a.pos_to_activity[to]>>
             IN IF from = EndCode
                THEN r \notin DOMAIN graph.directly_follows_relations
                ELSE /\ Frequency(graph, r) = Occurrences(call.edges, <<from, to>>)
                     /\ r \in DOMAIN graph.directly_follows_relations
                            <=> Occurrences(call.edges, <<from, to>>) > 0
       /\ \A r \in DOMAIN graph.directly_follows_relations :
             \E i \in DOMAIN call.edges :
                /\ call.edges[i][1] \in TableCodes /\ call.edges[i][2] \in TableCodes
                /\ r = <<org_a.pos_to_activity[call.edges[i][1]],
                         org_a.pos_to_activity[call.edges[i][2]]>>

\* the list has an edge from end and an edge that occurs twice
C13_Witness ==
    /\ pc = "update_graph_with_private_cases"
    /\ \E i \in DOMAIN call.edges :
          call.edges[i][1] = EndCode /\ call.edges[i][2] \in TableCodes
    /\ \E r \in DOMAIN graph.directly_follows_relations : graph.directly_follows_relations[r] = 2

(***************************************************************************)
(* SpecEncode: B encodes its own log with the sample encryptions A         *)
(* published for the agreed table.  B's log has traces of up to            *)
(* MaxPrivateLen events, one trace per case id; A sent no trace.           *)
(***************************************************************************)
EncodeLogs ==
    {log \in PrivateLogs : \A i, j \in DOMAIN log : i # j => log[i].name # log[j].name}

InitEncode ==
    /\ pc = "compute_all_case_names"
    /\ \E order \in Orders(ActivityNames) :
          org_a = update_with_foreign_activities(NewPrivateKeyOrganization(<<>>),
                                                 ActivityNames, order)
    /\ sample_encryptions = sanitize_sample_encryptions(provide_sample_encryptions(org_a))
    /\ \E logB \in EncodeLogs :
          org_b = set_activity_to_pos(NewPublicKeyOrganization(logB, encrypt_true),
                                      org_a.activity_to_pos, sample_encryptions)
    /\ window_size \in 1..2
    /\ server_key_set = TRUE
    /\ org_a_case_ids = <<>>
    /\ encrypted_case_ids = <<>>
    /\ shared_case_id_result = <<>>
    /\ shared_case_ids = {}
    /\ org_a_encrypted_data = EmptyMap
    /\ step = 0
    /\ windows = <<>>
    /\ decrypted_edges = <<>>
    /\ graph = NewGraph
    /\ hom = NewCounters
    /\ call = NoCall

NextEncode ==
    \/ ComputeAllCaseNames
    \/ EncryptAllDataB
    \/ WindowSkipped
    \/ WindowComputed

SpecEncode == InitEncode /\ [][NextEncode]_vars

(***************************************************************************)
(* C14: after B's encrypt_all_data with the samples A published for the    *)
(* agreed table, every stored activity value is sample_encryptions[c] with *)
(* c the table code of the event's activity and c a key of the samples;    *)
(* every trace keeps the number and the order of its events, and the       *)
(* timestamps are stored unchanged.  The call does not fail.               *)
(***************************************************************************)
C14_OwnTracesEncoded ==
    /\ pc = "panic" => windows # <<>>
    /\ pc \in {"windows", "panic"}
       => /\ DOMAIN org_b.own_case_to_trace = CaseIdsOf(org_b.event_log)
          /\ \A t \in DOMAIN org_b.event_log :
                LET events == org_b.event_log[t].events
                    stored == org_b.own_case_to_trace[org_b.event_log[t].name]
                IN /\ DOMAIN stored[1] = DOMAIN events
                   /\ DOMAIN stored[2] = DOMAIN events
                   /\ \A e \in DOMAIN events :
                         /\ org_a.activity_to_pos[events[e].activity] \in DOMAIN sample_encryptions
                         /\ stored[1][e] =
                               sample_encryptions[org_a.activity_to_pos[events[e].activity]]
                         /\ stored[2][e] = events[e].timestamp

\* a trace of B with two events of different activities was encoded
C14_Witness ==
    /\ pc = "windows"
    /\ \E t \in DOMAIN org_b.event_log :
          /\ Len(org_b.event_log[t].events) = 2
          /\ org_b.event_log[t].events[1].activity # org_b.event_log[t].events[2].activity
          /\ org_b.own_case_to_trace[org_b.event_log[t].name][1][1]
                # org_b.own_case_to_trace[org_b.event_log[t].name][1][2]

(***************************************************************************)
(* C15: when exactly one side of a case is empty and the other has n >= 1  *)
(* events x, find_secrets_for_case returns exactly the n + 1 edges         *)
(* start -> x_0, x_i -> x_(i+1) and x_(n-1) -> end, and leaves the         *)
(* timestamp-comparison and the selection counter unchanged.               *)
(***************************************************************************)
C15_EmptySide ==
    (call.returned /\ (call.foreign_activities = <<>>) # (call.own_activities = <<>>))
    => LET x == IF call.own_activities = <<>> THEN call.foreign_activities
                ELSE call.own_activities
       IN /\ ~call.panic
          /\ Len(call.edges) = Len(x) + 1
          /\ BagOfSeq(call.edges) = BagOfSeq(WrappedPairs(StartCode, x, EndCode))
          /\ hom = NewCounters

\* A's side is empty and B's side has three events
C15_Witness ==
    /\ call.returned
    /\ call.foreign_activities = <<>>
    /\ Len(call.own_activities) = 3
    /\ Len(call.edges) = 4
    /\ hom.selection_hom_comparisons = 0

\* the smallest and the largest element of a non-empty set of indices
MinIndex(S) == CHOOSE j \in S : \A k \in S : j <= k
MaxIndex(S) == CHOOSE j \in S : \A k \in S : k <= j

\* a returned call with events on both sides
BothSidesReturned ==
    call.returned /\ call.foreign_activities # <<>> /\ call.own_activities # <<>>

\* the B events with a timestamp in [t^A_i, t^A_(i+1)], and in [t^A_i, t^A_(i+1))
OwnInClosedInterval(i) ==
    {j \in DOMAIN call.own_timestamps :
        /\ call.foreign_timestamps[i] <= call.own_timestamps[j]
        /\ call.own_timestamps[j] <= call.foreign_timestamps[i + 1]}
OwnInHalfOpenInterval(i) ==
    {j \in DOMAIN call.own_timestamps :
        /\ call.foreign_timestamps[i] <= call.own_timestamps[j]
        /\ call.own_timestamps[j] < call.foreign_timestamps[i + 1]}

(***************************************************************************)
(* C16 as stated: for every A event a_i but the last, the successor        *)
(* computed by find_following_activity is the largest-indexed B event with *)
(* a timestamp in [t^A_i, t^A_(i+1)], or a_(i+1) if there is none.         *)
(***************************************************************************)
C16_LargestInClosedInterval ==
    BothSidesReturned
    => \A i \in 1..(Len(call.foreign_activities) - 1) :
          call.edges[1 + i] =
             <<call.foreign_activities[i],
               IF OwnInClosedInterval(i) = {} THEN call.foreign_activities[i + 1]
               ELSE call.own_activities[MaxIndex(OwnInClosedInterval(i))]>>

(***************************************************************************)
(* C16 amended: for every A event a_i but the last, the successor computed *)
(* by find_following_activity is the smallest-indexed B event with a       *)
(* timestamp in [t^A_i, t^A_(i+1)), or a_(i+1) if there is none.           *)
(***************************************************************************)
C16_SmallestInHalfOpenInterval ==
    BothSidesReturned
    => \A i \in 1..(Len(call.foreign_activities) - 1) :
          call.edges[1 + i] =
             <<call.foreign_activities[i],
               IF OwnInHalfOpenInterval(i) = {} THEN call.foreign_activities[i + 1]
               ELSE call.own_activities[MinIndex(OwnInHalfOpenInterval(i))]>>

\* two B events of different activities lie between a_i and a_(i+1), and a B
\* event has the timestamp of a_(i+1)
C16_Witness ==
    /\ BothSidesReturned
    /\ \E i \in 1..(Len(call.foreign_activities) - 1) :
          /\ Cardinality(OwnInHalfOpenInterval(i)) >= 2
          /\ OwnInClosedInterval(i) # OwnInHalfOpenInterval(i)
          /\ call.own_activities[MinIndex(OwnInHalfOpenInterval(i))]
                # call.own_activities[MaxIndex(OwnInHalfOpenInterval(i))]
          /\ call.edges[1 + i][2] = call.own_activities[MinIndex(OwnInHalfOpenInterval(i))]

\* the B events not before the last A event, and the A events after the last B event
OwnAfterLastForeign ==
    {j \in DOMAIN call.own_timestamps :
        call.foreign_timestamps[Len(call.foreign_timestamps)] <= call.own_timestamps[j]}
ForeignAfterLastOwn ==
    {i \in DOMAIN call.foreign_timestamps :
        call.own_timestamps[Len(call.own_timestamps)] < call.foreign_timestamps[i]}

\* the edges find_secrets_for_case pushes for the last A event and the last B event
LastForeignEdge == call.edges[Len(call.foreign_activities) + Len(call.own_activities)]
LastOwnEdge == call.edges[Len(call.foreign_activities) + Len(call.own_activities) + 1]

(***************************************************************************)
(* C17 as stated: for the last A event handle_last returns the last        *)
(* (largest-indexed) B event b_j with t^A_(p-1) <= t^B_j, and end if there *)
(* is none; symmetrically for the last B event with t^B_(q-1) < t^A_i.     *)
(***************************************************************************)
C17_LastMatching ==
    BothSidesReturned
    => /\ LastForeignEdge =
             <<call.foreign_activities[Len(call.foreign_activities)],
               IF OwnAfterLastForeign = {} THEN EndCode
               ELSE call.own_activities[MaxIndex(OwnAfterLastForeign)]>>
       /\ LastOwnEdge =
             <<call.own_activities[Len(call.own_activities)],
               IF ForeignAfterLastOwn = {} THEN EndCode
               ELSE call.foreign_activities[MaxIndex(ForeignAfterLastOwn)]>>

(***************************************************************************)
(* C17 amended: for the last A event handle_last returns the first         *)
(* (smallest-indexed) B event b_j with t^A_(p-1) <= t^B_j, and end if      *)
(* there is none; symmetrically for the last B event with                  *)
(* t^B_(q-1) < t^A_i.                                                      *)
(***************************************************************************)
C17_FirstMatching ==
    BothSidesReturned
    => /\ LastForeignEdge =
             <<call.foreign_activities[Len(call.foreign_activities)],
               IF OwnAfterLastForeign = {} THEN EndCode
               ELSE call.own_activities[MinIndex(OwnAfterLastForeign)]>>
       /\ LastOwnEdge =
             <<call.own_activities[Len(call.own_activities)],
               IF ForeignAfterLastOwn = {} THEN EndCode
               ELSE call.foreign_activities[MinIndex(ForeignAfterLastOwn)]>>

\* two B events of different activities follow the last A event
C17_Witness ==
    /\ BothSidesReturned
    /\ Cardinality(OwnAfterLastForeign) >= 2
    /\ call.own_activities[MinIndex(OwnAfterLastForeign)]
          # call.own_activities[MaxIndex(OwnAfterLastForeign)]
    /\ LastForeignEdge[2] = call.own_activities[MinIndex(OwnAfterLastForeign)]
    /\ LastOwnEdge[2] = EndCode

(***************************************************************************)
(* SpecShuffle: the windows of communicate with the vector find_all_secrets *)
(* returns kept as a vector: the edges of the cases of the window,         *)
(* concatenated and then shuffled, every permutation a possible outcome.   *)
(* The run starts where communicate calls compute_all_case_names, on logs  *)
(* with events of timestamp 1.                                             *)
(***************************************************************************)
ShuffleLogs ==
    {log \in EventLogs :
        \A t \in DOMAIN log : \A e \in DOMAIN log[t].events : log[t].events[e].timestamp = 1}

\* result.shuffle(&mut rng()): the vectors with the elements of edges in any order
Shuffles(edges) ==
    {[i \in DOMAIN edges |-> edges[p[i]]] : p \in Permutations(DOMAIN edges)}

\* variant: only the first case of the window is computed
find_all_secrets_first_case(b, start_case, upper_bound) ==
    IF upper_bound > start_case
    THEN SecretsOfCase(b, b.all_case_names[start_case + 1]).edges ELSE <<>>

\* find_all_secrets before the shuffle: the edges of the cases
\* all_case_names[start_case..upper_bound], concatenated in the order of the cases
find_all_secrets_list(b, start_case, upper_bound) ==
    Flatten([k \in 1..(upper_bound - start_case) |->
                SecretsOfCase(b, b.all_case_names[start_case + k]).edges])

InitShuffle ==
    /\ pc = "compute_all_case_names"
    /\ \E logA \in ShuffleLogs, logB \in ShuffleLogs :
          \E order \in Orders(find_activities(logA) \cup find_activities(logB)) :
             LET ids == encrypt_all_case_ids(NewPrivateKeyOrganization(logA))
                 b == NewPublicKeyOrganization(logB, encrypt_true)
                 result == find_shared_case_ids(b, ids.encrypted_case_ids)
                 shared == decrypt_and_identify_shared_case_ids(ids.case_ids, result)
                 a == update_with_foreign_activities(NewPrivateKeyOrganization(logA),
                                                     find_activities(logB), order)
                 samples == sanitize_sample_encryptions(provide_sample_encryptions(a))
             IN /\ org_a = a
                /\ org_a_case_ids = ids.case_ids
                /\ encrypted_case_ids = ids.encrypted_case_ids
                /\ shared_case_id_result = result
                /\ shared_case_ids = shared
                /\ sample_encryptions = samples
                /\ org_a_encrypted_data = encrypt_all_data_a(a, shared)
                /\ org_b = set_foreign_case_to_trace(
                              set_activity_to_pos(b, a.activity_to_pos, samples),
                              encrypt_all_data_a(a, shared),
                              Cardinality(DOMAIN a.activity_to_pos) - 1)
                /\ hom = find_shared_case_ids_counters(b, ids.encrypted_case_ids, NewCounters)
    /\ window_size \in 1..2
    /\ server_key_set = TRUE
    /\ step = 0
    /\ windows = <<>>
    /\ decrypted_edges = <<>>
    /\ graph = NewGraph
    /\ call = NoCall

\* the closure of the loop: find_all_secrets(step, upper_bound) returns a shuffled
\* vector (kept in call.edges), and org_a.decrypt_edges of it
FindAllSecretsShuffled ==
    /\ pc = "windows"
    /\ step < get_cases_len(org_b)
    /\ ~(step + window_size > get_cases_len(org_b))
    /\ LET upper_bound == UpperBound(step, window_size, get_cases_len(org_b))
           org_b_secrets == find_all_secrets(org_b, step, upper_bound)
       IN /\ windows' = Append(windows, <<step, upper_bound>>)
          /\ IF org_b_secrets.panic
             THEN pc' = "panic" /\ UNCHANGED <<decrypted_edges, hom, step, call>>
             ELSE /\ \E result \in Shuffles(find_all_secrets_list(org_b, step, upper_bound)) :
                        /\ call' = [call EXCEPT !.returned = TRUE, !.edges = result]
                        /\ decrypted_edges' =
                              Append(decrypted_edges, decrypt_edges(org_a, BagOfSeq(result)))
                  /\ hom' = [hom EXCEPT
                        !.timestamp_hom_comparisons = @ + org_b_secrets.timestamp_hom_comparisons,
                        !.selection_hom_comparisons = @ + org_b_secrets.selection_hom_comparisons]
                  /\ step' = step + window_size
                  /\ UNCHANGED pc
    /\ UNCHANGED <<org_a, org_b, window_size, server_key_set, org_a_case_ids,
                   encrypted_case_ids, shared_case_id_result, shared_case_ids,
                   sample_encryptions, org_a_encrypted_data, graph>>

NextShuffle ==
    \/ ComputeAllCaseNames
    \/ EncryptAllDataB
    \/ WindowSkipped
    \/ FindAllSecretsShuffled
    \/ EvaluateDecryptedEdgesToDfg

SpecShuffle == InitShuffle /\ [][NextShuffle]_vars

\* the last window given to find_all_secrets and the case names in it
LastWindow == windows[Len(windows)]
CasesOfWindow(names, w) == {names[k] : k \in (w[1] + 1)..w[2]}

CallP == Len(call.foreign_activities)
CallQ == Len(call.own_activities)
CallOperations == hom.timestamp_hom_comparisons + hom.selection_hom_comparisons

\* what find_secrets_for_case adds to the two counters on sides of p and q
\* events that all have the activity code 2 and the timestamp 1
OperationsOfLengths(p, q) ==
    LET r == find_secrets_for_case(org_b, [i \in 1..p |-> 2], [i \in 1..p |-> 1],
                                   [j \in 1..q |-> 2], [j \in 1..q |-> 1])
    IN r.timestamp_hom_comparisons + r.selection_hom_comparisons

LinearCoefficients == (0 - 20)..20

(***************************************************************************)
(* C19 as stated: what find_secrets_for_case adds to the two counters for  *)
(* one case depends on the lengths (p, q) only, and the sum of the two     *)
(* amounts is 2pq plus a term linear in p + q.                             *)
(***************************************************************************)
C19_TwoPQPlusLinear ==
    (call.returned /\ CallP >= 1 /\ CallQ >= 1)
    => /\ CallOperations = OperationsOfLengths(CallP, CallQ)
       /\ \E alpha \in LinearCoefficients, beta \in LinearCoefficients :
             \A p \in 1..MaxEvents, q \in 1..MaxEvents :
                OperationsOfLengths(p, q) = 2 * p * q + alpha * (p + q) + beta

(***************************************************************************)
(* C19 amended: what find_secrets_for_case adds to the two counters for    *)
(* one case depends on the lengths (p, q) only: with p, q >= 1 it adds 2pq *)
(* timestamp comparisons and 4pq - 2(p + q) + 3 selections, in sum         *)
(* 6pq - 2(p + q) + 3, and nothing when a side is empty.                   *)
(***************************************************************************)
C19_CountersByLengths ==
    (call.returned /\ ~call.panic)
    => IF CallP = 0 \/ CallQ = 0
       THEN hom.timestamp_hom_comparisons = 0 /\ hom.selection_hom_comparisons = 0
       ELSE /\ hom.timestamp_hom_comparisons = 2 * CallP * CallQ
            /\ hom.selection_hom_comparisons = 4 * CallP * CallQ - 2 * (CallP + CallQ) + 3
            /\ CallOperations = OperationsOfLengths(CallP, CallQ)

\* two and three events, with timestamps and activities that differ within a side
C19_Witness ==
    /\ call.returned
    /\ CallP = 2 /\ CallQ = 3
    /\ call.foreign_timestamps[1] # call.foreign_timestamps[2]
    /\ call.own_timestamps[1] # call.own_timestamps[3]
    /\ call.own_activities[1] # call.own_activities[2]
    /\ hom.timestamp_hom_comparisons = 12
    /\ hom.selection_hom_comparisons = 17

\* the calls of communicate up to the loop over the windows, in the order of the code
StepOrder ==
    <<"exchange_keys", "encrypt_all_case_ids", "find_shared_case_ids",
      "decrypt_shared_case_ids", "update_with_foreign_activities",
      "provide_sample_encryptions", "sanitize_sample_encryptions", "set_activity_to_pos",
      "encrypt_all_data_a", "set_foreign_case_to_trace", "compute_all_case_names",
      "encrypt_all_data_b", "windows">>

(***************************************************************************)
(* C20: the steps of communicate occur in one fixed order with no          *)
(* branching: B receives the server key first; A builds the code table     *)
(* before it publishes the sample encryptions; B sanitizes the samples     *)
(* before it reads start and end from them and before it encodes its own   *)
(* events; B installs the table before it stores A's traces, with a        *)
(* non-empty table; B computes the case names after it stored A's traces   *)
(* and before the first find_all_secrets.                                  *)
(***************************************************************************)
C20_FixedOrder ==
    [][/\ \A k \in 1..(Len(StepOrder) - 1) : pc = StepOrder[k] => pc' = StepOrder[k + 1]
       /\ server_key_set' # server_key_set => pc = "exchange_keys"
       /\ pc # "exchange_keys" => server_key_set
       /\ org_a' # org_a => pc = "update_with_foreign_activities"
       /\ sample_encryptions' # sample_encryptions
             => /\ pc \in {"provide_sample_encryptions", "sanitize_sample_encryptions"}
                /\ {"start", "end"} \subseteq DOMAIN org_a.activity_to_pos
       /\ pc = "sanitize_sample_encryptions"
             => sample_encryptions' = sanitize_sample_encryptions(sample_encryptions)
       /\ (org_b'.start # org_b.start \/ org_b'.end # org_b.end
            \/ org_b'.activity_to_pos # org_b.activity_to_pos)
             => /\ pc = "set_activity_to_pos"
                /\ org_b'.start = sample_encryptions[0] /\ org_b'.end = sample_encryptions[1]
       /\ pc = "set_foreign_case_to_trace"
             => /\ DOMAIN org_b.activity_to_pos # {}
                /\ DOMAIN org_b'.foreign_case_to_trace = DOMAIN org_a_encrypted_data
       /\ org_b'.foreign_case_to_trace # org_b.foreign_case_to_trace
             => pc = "set_foreign_case_to_trace"
       /\ org_b'.all_case_names # org_b.all_case_names => pc = "compute_all_case_names"
       /\ org_b'.own_case_to_trace # org_b.own_case_to_trace => pc = "encrypt_all_data_b"
       /\ windows' # windows
             => pc = "windows" /\ Range(org_b.all_case_names) = AllCaseNameSet(org_b)]_vars

\* a run in which every step had something to do: a shared case with events
\* on both sides, and a window computed
C20_Witness ==
    /\ pc = "done"
    /\ windows # <<>>
    /\ \E name \in DOMAIN org_b.foreign_case_to_trace :
          /\ org_b.foreign_case_to_trace[name][1] # <<>>
          /\ name \in DOMAIN org_b.own_case_to_trace
          /\ org_b.own_case_to_trace[name][1] # <<>>
    /\ org_b.start = StartCode /\ org_b.end = EndCode
    /\ Cardinality(DOMAIN sample_encryptions) = 2 + NumActs

(***************************************************************************)
(* C21: for every case name of all_case_names find_secrets_for_case        *)
(* completes without failure, also for a case with no event on either side *)
(* (an empty trace of B whose case id A did not send): no call of          *)
(* find_all_secrets in communicate fails.                                  *)
(***************************************************************************)
C21_FindSecretsCompletes ==
    [][(pc = "windows" /\ windows' # windows) => pc' # "panic"]_vars

(***************************************************************************)
(* C22: every case with p + q >= 1 events yields p + q + 1 edges, the      *)
(* amount get_secret_edges_len counts for it, so the number of edges A     *)
(* decrypted over all windows of communicate is get_secret_edges_len().    *)
(***************************************************************************)
C22_DecryptedEdgesLen ==
    pc \in LoopOver => BagSize(BagSum(decrypted_edges)) = get_secret_edges_len(org_b)

\* the sources and the targets of the edges of the call, in the order of the list
EdgeSources == [i \in DOMAIN call.edges |-> call.edges[i][1]]
EdgeTargets == [i \in DOMAIN call.edges |-> call.edges[i][2]]

(***************************************************************************)
(* C23: in the edges find_secrets_for_case returns for a case with         *)
(* p, q >= 1 sorted events, every event position of A and of B is the      *)
(* source of exactly one edge, exactly one edge has the source start,      *)
(* exactly one edge has the target end and it is one of the two edges      *)
(* leaving the last A event and the last B event, and no edge has the      *)
(* source end or the target start.                                         *)
(***************************************************************************)
C23_SourcesAndSentinels ==
    BothSidesReturned
    => /\ Len(call.edges) = CallP + CallQ + 1
       /\ BagOfSeq(EdgeSources)
             = BagOfSeq(<<StartCode>> \o call.foreign_activities \o call.own_activities)
       /\ Occurrences(EdgeSources, StartCode) = 1
       /\ Occurrences(EdgeTargets, EndCode) = 1
       /\ (LastForeignEdge[2] = EndCode) # (LastOwnEdge[2] = EndCode)
       /\ LastForeignEdge[1] = call.foreign_activities[CallP]
       /\ LastOwnEdge[1] = call.own_activities[CallQ]
       /\ Occurrences(EdgeSources, EndCode) = 0
       /\ Occurrences(EdgeTargets, StartCode) = 0

\* the last A event and the last B event have the same timestamp, and the
\* events of the case have distinct activity codes
C23_Witness ==
    /\ BothSidesReturned
    /\ CallP >= 2 /\ CallQ >= 2
    /\ call.foreign_timestamps[CallP] = call.own_timestamps[CallQ]
    /\ Cardinality(Range(EdgeSources)) = CallP + CallQ + 1
    /\ LastForeignEdge[2] # EndCode
    /\ LastOwnEdge[2] = EndCode

(***************************************************************************)
(* C24: when sanitize_sample_encryptions returns normally on n samples,    *)
(* the keys are exactly 0..n-1 and unchanged, every sample whose value was *)
(* its key is unchanged and every other value is replaced by 0: afterwards *)
(* every value is its key or 0.                                            *)
(***************************************************************************)
C24_SanitizedSamples ==
    [][(pc = "sanitize_sample_encryptions" /\ pc' # "panic")
       => /\ DOMAIN sample_encryptions = 0..(Cardinality(DOMAIN sample_encryptions) - 1)
          /\ DOMAIN sample_encryptions # {}
          /\ DOMAIN sample_encryptions' = DOMAIN sample_encryptions
          /\ \A k \in DOMAIN sample_encryptions :
                /\ sample_encryptions[k] = k => sample_encryptions'[k] = k
                /\ sample_encryptions[k] # k => sample_encryptions'[k] = 0
                /\ sample_encryptions'[k] \in {k, 0}]_vars

\* three or more samples were accepted, one of them kept and one replaced by 0
C24_Witness ==
    /\ pc = "set_activity_to_pos"
    /\ Cardinality(DOMAIN sample_encryptions) >= 3
    /\ \E k \in DOMAIN sample_encryptions : k >= 1 /\ sample_encryptions[k] = 0
    /\ \E k \in DOMAIN sample_encryptions : k >= 1 /\ sample_encryptions[k] = k

====
